---- MODULE Spec2Model ----
(***************************************************************************)
(* Model of the ISY994 device and program classifiers (isy994/helpers.py), *)
(* the ISY994 node entity (isy994/entity.py), the Vivint config flow       *)
(* (vivint/config_flow.py) and the ZHA setup and entry migration           *)
(* (zha/__init__.py).                                                      *)
(*                                                                         *)
(* Strings on which the code does substring, prefix, indexing or           *)
(* lower-casing work are sequences of one-character strings.  Strings      *)
(* that are only compared for equality are TLA+ strings.  An attribute of  *)
(* an object is <<v>> when it has the value v, None (<<>>) when it is      *)
(* None, and Absent when the object has no such attribute (hasattr is      *)
(* False and reading it raises AttributeError).  A dict is a function from *)
(* its possible keys, None for a key it does not hold.                     *)
(***************************************************************************)
EXTENDS Integers, Sequences, FiniteSets, TLC

VARIABLES
    NODE_FILTERS,       \* the per-platform filter tables (const.NODE_FILTERS)
    ignore_identifier,  \* configured ignore token
    sensor_identifier,  \* configured sensor-override token
    nodes,              \* the hub's (path, node) pairs, in iteration order
    ISY994_NODES,       \* hass.data[ISY994_NODES]: platform -> list of node ids
    log,                \* node ids for which "Unsupported node" was logged
    raised,             \* exception that ended the last call, or NoError
    reached,            \* index of the last node the last call started on
    calls,              \* number of calls made so far of the function under study
    first,              \* hass.data[ISY994_NODES] as the first call left it
    states_call,        \* a direct call of _check_for_states_in_uom: its arguments and result
    programs,           \* the hub's program tree: platform -> HA.<platform> folder
    ISY994_PROGRAMS,    \* hass.data[ISY994_PROGRAMS]: platform -> list of entities
    program_log,        \* warnings logged by _categorize_programs
    current_entries,    \* number of Vivint config entries that exist
    flow,               \* the calls of VivintConfigFlow.async_step_user and their results
    isy_entity,         \* an ISYNodeEntity: its node, its _attrs and what its reads returned
    zha_load,           \* ZHA setup: platform tasks, gateway, async_load_entities
    zha_entry           \* a ZHA config entry, the configured baudrate, the migrations run,
                        \* and what the test against RadioType.deconz answers

classifierVars == <<NODE_FILTERS, ignore_identifier, sensor_identifier, nodes,
                    ISY994_NODES, log, raised, reached, calls, first>>

programVars == <<programs, ISY994_PROGRAMS, program_log>>

vivintVars == <<current_entries, flow>>

adapterVars == <<isy_entity, zha_load, zha_entry>>

vars == <<NODE_FILTERS, ignore_identifier, sensor_identifier, nodes,
          ISY994_NODES, log, raised, reached, calls, first,
          states_call, programs, ISY994_PROGRAMS, program_log,
          current_entries, flow, isy_entity, zha_load, zha_entry>>

----------------------------------------------------------------------------
(* Bounds *)

MaxNodes == 2

MaxCalls == 2

MaxChildren == 2

MaxSteps == 2

MaxReads == 2

MaxMigrations == 2

----------------------------------------------------------------------------
(* Options and strings *)

None == <<>>

Some(v) == <<v>>

\* The object has no such attribute
Absent == <<"no", "attribute">>

\* hasattr(node, "x"), on the attribute's value
HasAttr(v) == v # Absent

\* not hasattr(node, "x") or node.x is None
Lacks(v) == ~HasAttr(v) \/ v = None

NoError == "none"

Str0 == <<>>

\* Python: tok in s   (substring test; the empty token is in every string)
Contains(s, tok) ==
    \E k \in 0..(Len(s) - Len(tok)) :
        \A j \in 1..Len(tok) : s[k + j] = tok[j]

\* Python: s.startswith(t)
StartsWith(s, t) ==
    /\ Len(t) <= Len(s)
    /\ \A j \in 1..Len(t) : s[j] = t[j]

UpperChars == <<"A","B","C","D","E","F","G","H","I","J","K","L","M",
                "N","O","P","Q","R","S","T","U","V","W","X","Y","Z">>

LowerChars == <<"a","b","c","d","e","f","g","h","i","j","k","l","m",
                "n","o","p","q","r","s","t","u","v","w","x","y","z">>

LowerChar(c) ==
    IF \E k \in 1..Len(UpperChars) : UpperChars[k] = c
    THEN LowerChars[CHOOSE k \in 1..Len(UpperChars) : UpperChars[k] = c]
    ELSE c

\* Python: str.lower(s)
Lower(s) == [j \in 1..Len(s) |-> LowerChar(s[j])]

Digits == <<"0","1","2","3","4","5","6","7","8","9">>

IsDigit(c) == \E k \in 1..Len(Digits) : Digits[k] = c

\* Python: int(c) for a one-character string c that is a digit
DigitValue(c) == (CHOOSE k \in 1..Len(Digits) : Digits[k] = c) - 1

Range(s) == {s[j] : j \in 1..Len(s)}

Min(S) == CHOOSE x \in S : \A y \in S : x <= y

----------------------------------------------------------------------------
(* Platforms and protocols *)

BINARY_SENSOR == "binary_sensor"

SENSOR == "sensor"

LOCK == "lock"

FAN == "fan"

COVER == "cover"

LIGHT == "light"

SWITCH == "switch"

SUPPORTED_PLATFORMS == <<BINARY_SENSOR, SENSOR, LOCK, FAN, COVER, LIGHT, SWITCH>>

Platforms == Range(SUPPORTED_PLATFORMS)

ISY_GROUP_PLATFORM == SWITCH

PROTO_GROUP == "group"

PROTO_INSTEON == "insteon"

PROTO_ZWAVE == "zwave"

----------------------------------------------------------------------------
(* String literals used by the tables and the nodes *)

s_2 == <<"2">>

s_78 == <<"7","8">>

s_1 == <<"1">>

s_11 == <<"1","1">>

s_51 == <<"5","1">>

s_97 == <<"9","7">>

s_on == <<"o","n">>

s_off == <<"o","f","f">>

s_ON == <<"O","N">>

s_Off == <<"O","f","f">>

s_pct == <<"%">>

s_low == <<"l","o","w">>

s_med == <<"m","e","d">>

s_high == <<"h","i","g","h">>

s_open == <<"o","p","e","n">>

s_closed == <<"c","l","o","s","e","d">>

s_locked == <<"l","o","c","k","e","d">>

s_unlocked == <<"u","n","l","o","c","k","e","d">>

\* Insteon type prefixes
t_bs == <<"1","6",".">>

t_sensor == <<"9",".","0",".">>

t_lock == <<"1","5",".">>

t_fan == <<"1",".","4","6",".">>

t_light == <<"1",".">>

t_switch == <<"2",".">>

t_crossed == <<"1",".","4">>

----------------------------------------------------------------------------
(* Filter tables.  ShippedFilters is an abridged copy of the table the     *)
(* integration ships; CrossedFilters makes the matchers and the platforms  *)
(* overlap, so that the order of evaluation decides the outcome.           *)

ShippedFilters ==
    [p \in Platforms |->
        CASE p = BINARY_SENSOR ->
                [uom |-> {}, states |-> {},
                 node_def_id |-> {"BinaryAlarm"}, insteon_type |-> {t_bs}]
          [] p = SENSOR ->
                [uom |-> {s_1}, states |-> {},
                 node_def_id |-> {"IMETER_SOLO"}, insteon_type |-> {t_sensor}]
          [] p = LOCK ->
                [uom |-> {s_11}, states |-> {s_locked, s_unlocked},
                 node_def_id |-> {"DoorLock"}, insteon_type |-> {t_lock}]
          [] p = FAN ->
                [uom |-> {}, states |-> {s_off, s_low, s_med, s_high},
                 node_def_id |-> {"FanLincMotor"}, insteon_type |-> {t_fan}]
          [] p = COVER ->
                [uom |-> {s_97}, states |-> {s_open, s_closed},
                 node_def_id |-> {}, insteon_type |-> {}]
          [] p = LIGHT ->
                [uom |-> {s_51}, states |-> {s_on, s_off, s_pct},
                 node_def_id |-> {"DimmerLampSwitch"}, insteon_type |-> {t_light}]
          [] p = SWITCH ->
                [uom |-> {s_2, s_78}, states |-> {s_on, s_off},
                 node_def_id |-> {"RelayLampSwitch"}, insteon_type |-> {t_switch}]]

CrossedFilters ==
    [p \in Platforms |->
        CASE p = BINARY_SENSOR ->
                [uom |-> {s_51}, states |-> {s_2},
                 node_def_id |-> {"BinaryAlarm"}, insteon_type |-> {t_bs}]
          [] p = SENSOR ->
                [uom |-> {s_1}, states |-> {s_on, s_off},
                 node_def_id |-> {"IMETER_SOLO"}, insteon_type |-> {t_sensor}]
          [] p = LOCK ->
                [uom |-> {s_11}, states |-> {s_locked, s_unlocked},
                 node_def_id |-> {"DoorLock"}, insteon_type |-> {t_crossed}]
          [] p = FAN ->
                [uom |-> {s_on}, states |-> {s_off, s_low, s_med, s_high},
                 node_def_id |-> {"FanLincMotor"}, insteon_type |-> {t_fan}]
          [] p = COVER ->
                [uom |-> {s_97}, states |-> {s_open, s_closed},
                 node_def_id |-> {}, insteon_type |-> {}]
          [] p = LIGHT ->
                [uom |-> {s_51}, states |-> {s_on, s_off, s_pct},
                 node_def_id |-> {"FanLincMotor", "DimmerLampSwitch"},
                 insteon_type |-> {t_light}]
          [] p = SWITCH ->
                [uom |-> {s_2, s_78}, states |-> {s_on, s_off},
                 node_def_id |-> {"RelayLampSwitch"}, insteon_type |-> {t_switch}]]

FilterTables == {ShippedFilters, CrossedFilters}

----------------------------------------------------------------------------
(* Matchers.  A matcher takes the registry state hass = [reg, log], the    *)
(* node's id (its position in nodes) and the node, and returns             *)
(* [ok, hass, exc]: its return value, the registry state it leaves, and    *)
(* the exception it raised (NoError when it returned).                     *)

Ret(ok, hass) == [ok |-> ok, hass |-> hass, exc |-> NoError]

Raise(hass, exc) == [ok |-> FALSE, hass |-> hass, exc |-> exc]

\* Mutant of AppendNode: a node already in the list is not appended again
AppendNode_Once(hass, platform, id) ==
    IF \E j \in 1..Len(hass.reg[platform]) : hass.reg[platform][j] = id
    THEN hass
    ELSE [hass EXCEPT !.reg[platform] = Append(@, id)]

\* Mutant of AppendNode: the node is put at the front of the list
AppendNode_Front(hass, platform, id) ==
    [hass EXCEPT !.reg[platform] = <<id>> \o @]

\* hass.data[ISY994_NODES][platform].append(node)
AppendNode(hass, platform, id) ==
    [hass EXCEPT !.reg[platform] = Append(@, id)]

\* _LOGGER.warning("Unsupported node: %s, type: %s", node.name, node.type)
\* followed by "return False": the arguments are read before anything is
\* logged
WarnUnsupported(hass, id, node) ==
    IF ~HasAttr(node.name) \/ ~HasAttr(node.type) THEN Raise(hass, "AttributeError")
    ELSE Ret(FALSE, [hass EXCEPT !.log = Append(@, id)])

\* SUPPORTED_PLATFORMS if not single_platform else [single_platform]
PlatformsFor(single_platform) ==
    IF single_platform = None THEN SUPPORTED_PLATFORMS
    ELSE <<single_platform[1]>>

\* set(map(str.lower, node.uom))
NodeUom(node) == {Lower(u) : u \in Range(node.uom[1])}

\* Mutant of check_for_node_def: the "return True" after the append is lost
check_for_node_def_NoReturn(hass, id, node, single_platform) ==
    IF Lacks(node.node_def_id) THEN Ret(FALSE, hass)
    ELSE
        LET node_def_id == node.node_def_id[1]
            platforms == PlatformsFor(single_platform)
            hits == {k \in 1..Len(platforms) :
                        node_def_id \in NODE_FILTERS[platforms[k]].node_def_id}
        IN  IF hits # {}
            THEN Ret(FALSE, AppendNode(hass, platforms[Min(hits)], id))
            ELSE WarnUnsupported(hass, id, node)

\* Mutant of check_for_node_def: a fan match on an address ending in 1 is
\* redirected to light, as the Insteon-type matcher does
check_for_node_def_Redirect(hass, id, node, single_platform) ==
    IF Lacks(node.node_def_id) THEN Ret(FALSE, hass)
    ELSE
        LET node_def_id == node.node_def_id[1]
            platforms == PlatformsFor(single_platform)
            hits == {k \in 1..Len(platforms) :
                        node_def_id \in NODE_FILTERS[platforms[k]].node_def_id}
        IN  IF hits # {}
            THEN IF /\ platforms[Min(hits)] = FAN
                    /\ ~Lacks(node.address)
                    /\ Len(node.address[1]) >= 1
                    /\ node.address[1][Len(node.address[1])] = "1"
                 THEN Ret(TRUE, AppendNode(hass, LIGHT, id))
                 ELSE Ret(TRUE, AppendNode(hass, platforms[Min(hits)], id))
            ELSE WarnUnsupported(hass, id, node)

check_for_node_def(hass, id, node, single_platform) ==
    IF Lacks(node.node_def_id) THEN Ret(FALSE, hass)
    ELSE
        LET node_def_id == node.node_def_id[1]
            platforms == PlatformsFor(single_platform)
            hits == {k \in 1..Len(platforms) :
                        node_def_id \in NODE_FILTERS[platforms[k]].node_def_id}
        IN  IF hits # {}
            THEN Ret(TRUE, AppendNode(hass, platforms[Min(hits)], id))
            ELSE WarnUnsupported(hass, id, node)

\* int(node.address[-1]) == 1, with the exceptions it can raise
AddressEndsInOne(node) ==
    IF ~HasAttr(node.address) THEN "AttributeError"
    ELSE IF node.address = None THEN "TypeError"
    ELSE IF Len(node.address[1]) = 0 THEN "IndexError"
    ELSE LET c == node.address[1][Len(node.address[1])]
         IN  IF ~IsDigit(c) THEN "ValueError"
             ELSE IF DigitValue(c) = 1 THEN "yes" ELSE "no"

\* Mutant of check_for_insteon_type: the FanLinc special case is missing
check_for_insteon_type_NoQuirk(hass, id, node, single_platform) ==
    IF ~HasAttr(node.protocol) \/ node.protocol # Some(PROTO_INSTEON)
    THEN Ret(FALSE, hass)
    ELSE IF Lacks(node.type) THEN Ret(FALSE, hass)
    ELSE
        LET device_type == node.type[1]
            platforms == PlatformsFor(single_platform)
            hits == {k \in 1..Len(platforms) :
                        \E t \in NODE_FILTERS[platforms[k]].insteon_type :
                            StartsWith(device_type, t)}
        IN  IF hits = {} THEN Ret(FALSE, hass)
            ELSE Ret(TRUE, AppendNode(hass, platforms[Min(hits)], id))

check_for_insteon_type(hass, id, node, single_platform) ==
    IF ~HasAttr(node.protocol) \/ node.protocol # Some(PROTO_INSTEON)
    THEN Ret(FALSE, hass)
    ELSE IF Lacks(node.type) THEN Ret(FALSE, hass)
    ELSE
        LET device_type == node.type[1]
            platforms == PlatformsFor(single_platform)
            hits == {k \in 1..Len(platforms) :
                        \E t \in NODE_FILTERS[platforms[k]].insteon_type :
                            StartsWith(device_type, t)}
        IN  IF hits = {} THEN Ret(FALSE, hass)
            ELSE
                LET platform == platforms[Min(hits)]
                    one == AddressEndsInOne(node)
                IN  IF platform = FAN
                    THEN IF one = "yes" THEN Ret(TRUE, AppendNode(hass, LIGHT, id))
                         ELSE IF one = "no"
                              THEN Ret(TRUE, AppendNode(hass, platform, id))
                              ELSE Raise(hass, one)
                    ELSE Ret(TRUE, AppendNode(hass, platform, id))

\* uom_list is a list; None and [] are both falsy
check_for_uom_id(hass, id, node, single_platform, uom_list) ==
    IF Lacks(node.uom) THEN Ret(FALSE, hass)
    ELSE
        LET node_uom == NodeUom(node)
        IN  IF uom_list # <<>>
            THEN IF node_uom \cap Range(uom_list) # {}
                 THEN Ret(TRUE, AppendNode(hass, single_platform[1], id))
                 ELSE Ret(FALSE, hass)
            ELSE
                LET platforms == PlatformsFor(single_platform)
                    hits == {k \in 1..Len(platforms) :
                                node_uom \cap NODE_FILTERS[platforms[k]].uom # {}}
                IN  IF hits # {}
                    THEN Ret(TRUE, AppendNode(hass, platforms[Min(hits)], id))
                    ELSE Ret(FALSE, hass)

\* Mutant of check_for_states_in_uom: the node's states need only fit inside
\* the filter
check_for_states_in_uom_Subset(hass, id, node, single_platform, states_list) ==
    IF Lacks(node.uom) THEN Ret(FALSE, hass)
    ELSE
        LET node_uom == NodeUom(node)
        IN  IF states_list # <<>>
            THEN IF node_uom \subseteq Range(states_list)
                 THEN Ret(TRUE, AppendNode(hass, single_platform[1], id))
                 ELSE Ret(FALSE, hass)
            ELSE
                LET platforms == PlatformsFor(single_platform)
                    hits == {k \in 1..Len(platforms) :
                                node_uom \subseteq NODE_FILTERS[platforms[k]].states}
                IN  IF hits # {}
                    THEN Ret(TRUE, AppendNode(hass, platforms[Min(hits)], id))
                    ELSE Ret(FALSE, hass)

check_for_states_in_uom(hass, id, node, single_platform, states_list) ==
    IF Lacks(node.uom) THEN Ret(FALSE, hass)
    ELSE
        LET node_uom == NodeUom(node)
        IN  IF states_list # <<>>
            THEN IF node_uom = Range(states_list)
                 THEN Ret(TRUE, AppendNode(hass, single_platform[1], id))
                 ELSE Ret(FALSE, hass)
            ELSE
                LET platforms == PlatformsFor(single_platform)
                    hits == {k \in 1..Len(platforms) :
                                node_uom = NODE_FILTERS[platforms[k]].states}
                IN  IF hits # {}
                    THEN Ret(TRUE, AppendNode(hass, platforms[Min(hits)], id))
                    ELSE Ret(FALSE, hass)

\* r is the result of the matcher tried first; next is the result of the
\* matcher tried after it, on the registry state r left
OrElse(r, next) == IF r.exc # NoError \/ r.ok THEN r ELSE next

is_sensor_a_binary_sensor(hass, id, node) ==
    LET r1 == check_for_node_def(hass, id, node, Some(BINARY_SENSOR))
        r2 == check_for_insteon_type(r1.hass, id, node, Some(BINARY_SENSOR))
        r3 == check_for_uom_id(r2.hass, id, node, Some(BINARY_SENSOR),
                               <<s_2, s_78>>)
        r4 == check_for_states_in_uom(r3.hass, id, node, Some(BINARY_SENSOR),
                                      <<s_on, s_off>>)
    IN  OrElse(r1, OrElse(r2, OrElse(r3, r4)))

\* Mutant of InPathOrName: the path is not looked at
InPathOrName_NameOnly(node, tok) ==
    IF ~HasAttr(node.name) THEN "AttributeError"
    ELSE IF node.name = None THEN "TypeError"
    ELSE IF Contains(node.name[1], tok) THEN "yes" ELSE "no"

\* tok in path or tok in node.name
InPathOrName(node, tok) ==
    IF Contains(node.path, tok) THEN "yes"
    ELSE IF ~HasAttr(node.name) THEN "AttributeError"
    ELSE IF node.name = None THEN "TypeError"
    ELSE IF Contains(node.name[1], tok) THEN "yes" ELSE "no"

\* The four generic matchers in order
GenericMatch(hass, id, node) ==
    LET r1 == check_for_node_def(hass, id, node, None)
        r2 == check_for_insteon_type(r1.hass, id, node, None)
        r3 == check_for_uom_id(r2.hass, id, node, None, <<>>)
        r4 == check_for_states_in_uom(r3.hass, id, node, None, <<>>)
    IN  OrElse(r1, OrElse(r2, OrElse(r3, r4)))

\* Mutant of CategorizeNode: the "continue" after a binary_sensor match is
\* lost, so the node is appended to the sensor list as well
CategorizeNode_NoContinue(hass, id, node) ==
    LET ignored == InPathOrName(node, ignore_identifier)
        sensor == InPathOrName(node, sensor_identifier)
    IN  IF ignored \notin {"yes", "no"} THEN Raise(hass, ignored)
        ELSE IF ignored = "yes" THEN Ret(FALSE, hass)
        ELSE IF HasAttr(node.protocol) /\ node.protocol = Some(PROTO_GROUP)
             THEN Ret(TRUE, AppendNode(hass, ISY_GROUP_PLATFORM, id))
        ELSE IF sensor \notin {"yes", "no"} THEN Raise(hass, sensor)
        ELSE IF sensor = "yes"
             THEN LET b == is_sensor_a_binary_sensor(hass, id, node)
                  IN  IF b.exc # NoError THEN b
                      ELSE Ret(TRUE, AppendNode(b.hass, SENSOR, id))
        ELSE GenericMatch(hass, id, node)

\* Mutant of CategorizeNode: the group check comes after the sensor branch
CategorizeNode_GroupLate(hass, id, node) ==
    LET ignored == InPathOrName(node, ignore_identifier)
        sensor == InPathOrName(node, sensor_identifier)
    IN  IF ignored \notin {"yes", "no"} THEN Raise(hass, ignored)
        ELSE IF ignored = "yes" THEN Ret(FALSE, hass)
        ELSE IF sensor \notin {"yes", "no"} THEN Raise(hass, sensor)
        ELSE IF sensor = "yes"
             THEN LET b == is_sensor_a_binary_sensor(hass, id, node)
                  IN  IF b.exc # NoError \/ b.ok THEN b
                      ELSE Ret(TRUE, AppendNode(b.hass, SENSOR, id))
        ELSE IF HasAttr(node.protocol) /\ node.protocol = Some(PROTO_GROUP)
             THEN Ret(TRUE, AppendNode(hass, ISY_GROUP_PLATFORM, id))
        ELSE GenericMatch(hass, id, node)

\* Mutant of CategorizeNode: groups are assigned before the ignore test
CategorizeNode_GroupFirst(hass, id, node) ==
    LET ignored == InPathOrName(node, ignore_identifier)
        sensor == InPathOrName(node, sensor_identifier)
    IN  IF HasAttr(node.protocol) /\ node.protocol = Some(PROTO_GROUP)
        THEN Ret(TRUE, AppendNode(hass, ISY_GROUP_PLATFORM, id))
        ELSE IF ignored \notin {"yes", "no"} THEN Raise(hass, ignored)
        ELSE IF ignored = "yes" THEN Ret(FALSE, hass)
        ELSE IF sensor \notin {"yes", "no"} THEN Raise(hass, sensor)
        ELSE IF sensor = "yes"
             THEN LET b == is_sensor_a_binary_sensor(hass, id, node)
                  IN  IF b.exc # NoError \/ b.ok THEN b
                      ELSE Ret(TRUE, AppendNode(b.hass, SENSOR, id))
        ELSE GenericMatch(hass, id, node)

\* One iteration of the loop of _categorize_nodes
CategorizeNode(hass, id, node) ==
    LET ignored == InPathOrName(node, ignore_identifier)
        sensor == InPathOrName(node, sensor_identifier)
    IN  IF ignored \notin {"yes", "no"} THEN Raise(hass, ignored)
        ELSE IF ignored = "yes" THEN Ret(FALSE, hass)
        ELSE IF HasAttr(node.protocol) /\ node.protocol = Some(PROTO_GROUP)
             THEN Ret(TRUE, AppendNode(hass, ISY_GROUP_PLATFORM, id))
        ELSE IF sensor \notin {"yes", "no"} THEN Raise(hass, sensor)
        ELSE IF sensor = "yes"
             THEN LET b == is_sensor_a_binary_sensor(hass, id, node)
                  IN  IF b.exc # NoError \/ b.ok THEN b
                      ELSE Ret(TRUE, AppendNode(b.hass, SENSOR, id))
        ELSE GenericMatch(hass, id, node)

\* The loop of _categorize_nodes from the k-th pair on.  The result carries
\* the index of the last pair the loop started on.
RECURSIVE CategorizeFrom(_, _)
CategorizeFrom(hass, k) ==
    IF k > Len(nodes) THEN [hass |-> hass, exc |-> NoError, reached |-> k - 1]
    ELSE LET r == CategorizeNode(hass, k, nodes[k])
         IN  IF r.exc # NoError
             THEN [hass |-> r.hass, exc |-> r.exc, reached |-> k]
             ELSE CategorizeFrom(r.hass, k + 1)

categorize_nodes(hass) == CategorizeFrom(hass, 1)

----------------------------------------------------------------------------
(* Inputs: the configured tokens and the hub's nodes *)

IgnoreTokens == {<<"!","x">>}

SensorTokens == {<<"s","e">>}

p_plain == <<"h","/","k">>

p_ign == <<"h","!","x">>

p_sens == <<"s","e","/","k">>

p_near == <<"s","!","e","x">>

n_plain == <<"k","1">>

n_ign == <<"!","x","k">>

n_sens == <<"k","s","e">>

a_1 == <<"C"," ","1">>

a_2 == <<"C"," ","2">>

a_A == <<"C"," ","A">>

ty_fan == <<"1",".","4","6",".","1">>

ty_light == <<"1",".","2">>

ty_bs == <<"1","6",".","1">>

ty_other == <<"9","9">>

Node(path, name, address, protocol, node_def_id, type, uom) ==
    [path |-> path, name |-> name, address |-> address, protocol |-> protocol,
     node_def_id |-> node_def_id, type |-> type, uom |-> uom]

\* Nodes that reach generic matching and carry no node_def_id
GenericInsteonNodes ==
    { Node(p_plain, Some(n_plain), Some(ta[2]), Some(PROTO_INSTEON), None, ta[1], None) :
        ta \in { <<None, a_1>>, <<Some(ty_bs), a_1>>, <<Some(ty_light), a_1>>,
                 <<Some(ty_fan), a_1>>, <<Some(ty_fan), a_2>>, <<Some(ty_fan), a_A>>,
                 <<Some(ty_fan), Str0>>, <<Some(ty_other), a_1>> } }
    \cup
    { Node(p_plain, Some(n_plain), Some(ta[2]), Some(PROTO_INSTEON), None, ta[1],
           Some(<<s_2>>)) :
        ta \in { <<None, a_1>>, <<Some(ty_fan), a_1>>, <<Some(ty_fan), a_A>> } }

\* Nodes that every generic matcher can match, with each kind of node_def_id
NodeDefNodes ==
    { Node(p_plain, Some(n_plain), Some(a_1), Some(PROTO_INSTEON), Some(d),
           Some(ty_fan), Some(<<s_2>>)) :
        d \in {"BinaryAlarm", "FanLincMotor", "RelayLampSwitch", "Unknown"} }
    \cup
    { Node(p_plain, Some(n_plain), Some(a_A), Some(PROTO_INSTEON), Some("FanLincMotor"),
           Some(ty_fan), None) }

\* Nodes of another protocol: only node_def_id and uom can classify them
UomNodes ==
    { Node(p_plain, Some(n_plain), Some(a_1), Some(PROTO_ZWAVE), None, Some(ty_fan),
           Some(u)) :
        u \in { <<>>, <<s_2>>, <<s_ON, s_Off>>, <<s_on>>, <<s_on, s_off, s_pct>>,
                <<s_51>> } }

\* Nodes carrying the sensor-override token
SensorNodes ==
    { Node(p_sens, Some(n_plain), Some(a_1), Some(PROTO_INSTEON), c[1], c[2], c[3]) :
        c \in { <<None, None, None>>,
                <<Some("BinaryAlarm"), Some(ty_fan), None>>,
                <<Some("FanLincMotor"), Some(ty_bs), Some(<<s_51>>)>>,
                <<None, Some(ty_fan), Some(<<s_2>>)>>,
                <<None, None, Some(<<s_ON, s_Off>>)>>,
                <<None, None, Some(<<s_51>>)>>,
                <<Some("Unknown"), None, Some(<<s_1>>)>>,
                <<None, None, Some(<<s_on>>)>>,
                <<None, None, Some(<<>>)>> } }
    \cup
    { Node(p_plain, Some(n_sens), Some(a_1), Some(PROTO_ZWAVE), None, c[1], c[2]) :
        c \in { <<Some(ty_bs), Some(<<s_ON, s_Off>>)>>, <<None, None>> } }

\* Nodes carrying the ignore token
IgnoredNodes ==
    { Node(p_ign, Some(n_plain), Some(a_1), Some(PROTO_GROUP), Some("FanLincMotor"),
           Some(ty_fan), Some(<<s_2>>)),
      Node(p_plain, Some(n_ign), Some(a_A), Some(PROTO_INSTEON), None,
           Some(ty_fan), Some(<<s_2>>)),
      Node(p_ign, Some(n_sens), Some(a_1), Some(PROTO_INSTEON), Some("Unknown"),
           Absent, Absent) }

\* Groups (scenes); the first has no node_def_id, type or uom attribute
GroupNodes ==
    { Node(p_plain, Some(n_plain), Some(a_1), Some(PROTO_GROUP), Absent, Absent,
           Absent),
      Node(p_plain, Some(n_plain), Some(a_A), Some(PROTO_GROUP), Some("FanLincMotor"),
           Some(ty_fan), Some(<<s_2>>)),
      Node(p_sens, Some(n_plain), Some(a_1), Some(PROTO_GROUP), Some("BinaryAlarm"),
           Some(ty_bs), Some(<<s_on, s_off>>)) }

\* Nodes with an attribute that is None, and a path that only nearly holds a
\* token
SparseNodes ==
    { Node(p_near, Some(n_plain), Some(a_1), Some(PROTO_INSTEON), None,
           Some(ty_light), None),
      Node(p_plain, None, Some(a_1), Some(PROTO_INSTEON), None, Some(ty_light), None),
      Node(p_plain, Some(n_plain), None, Some(PROTO_INSTEON), None, Some(ty_fan), None),
      Node(p_plain, Some(n_plain), None, None, None, None, None) }

NodeUniverse ==
    GenericInsteonNodes \cup NodeDefNodes \cup UomNodes \cup SensorNodes
        \cup IgnoredNodes \cup GroupNodes \cup SparseNodes

SeqsUpTo(S, n) == UNION {[1..k -> S] : k \in 0..n}

EmptyRegistry == [p \in Platforms |-> <<>>]

\* The parts of the state a specification does not use
NoStatesCall == states_call = <<>>

NoPrograms == programs = <<>> /\ ISY994_PROGRAMS = <<>> /\ program_log = <<>>

NoVivint == current_entries = 0 /\ flow = <<>>

NoAdapters == isy_entity = <<>> /\ zha_load = <<>> /\ zha_entry = <<>>

----------------------------------------------------------------------------
(* State machine *)

Init ==
    /\ NODE_FILTERS \in FilterTables
    /\ ignore_identifier \in IgnoreTokens
    /\ sensor_identifier \in SensorTokens
    /\ nodes \in SeqsUpTo(NodeUniverse, MaxNodes)
    /\ ISY994_NODES = EmptyRegistry
    /\ log = <<>>
    /\ raised = NoError
    /\ reached = 0
    /\ calls = 0
    /\ first = EmptyRegistry
    /\ NoStatesCall /\ NoPrograms /\ NoVivint /\ NoAdapters

\* A call _categorize_nodes(hass, nodes, ignore_identifier, sensor_identifier)
Categorize ==
    /\ calls < MaxCalls
    /\ LET r == categorize_nodes([reg |-> ISY994_NODES, log |-> log])
       IN  /\ ISY994_NODES' = r.hass.reg
           /\ log' = r.hass.log
           /\ raised' = r.exc
           /\ reached' = r.reached
           /\ first' = IF calls = 0 THEN r.hass.reg ELSE first
    /\ calls' = calls + 1
    /\ UNCHANGED <<NODE_FILTERS, ignore_identifier, sensor_identifier, nodes>>
    /\ UNCHANGED <<states_call, programVars, vivintVars, adapterVars>>

Next == Categorize

Spec == Init /\ [][Next]_vars

----------------------------------------------------------------------------
(* _categorize_nodes on nodes with an empty uom, with filter tables in     *)
(* which the first, a later or no platform has an empty state vocabulary.  *)

\* Filter tables in which cover is the first platform without states
LateEmptyFilters ==
    [ShippedFilters EXCEPT ![BINARY_SENSOR].states = {s_open},
                           ![SENSOR].states = {s_closed},
                           ![COVER].states = {},
                           ![SWITCH].states = {}]

EmptyUomNodes ==
    { Node(p_plain, Some(n_plain), Some(a_2), Some(c[1]), c[2], c[3], c[4]) :
        c \in { <<PROTO_ZWAVE, None, None, Some(<<>>)>>,
                <<PROTO_INSTEON, None, Some(ty_other), Some(<<>>)>>,
                <<PROTO_INSTEON, Some("Unknown"), None, Some(<<>>)>>,
                <<PROTO_INSTEON, None, Some(ty_light), Some(<<>>)>>,
                <<PROTO_ZWAVE, None, None, Some(<<s_2>>)>>,
                <<PROTO_ZWAVE, None, None, None>>,
                <<PROTO_ZWAVE, Some("Unknown"), Absent, Some(<<>>)>> } }
    \cup
    { Node(p_sens, Some(n_plain), Some(a_2), Some(PROTO_ZWAVE), None, None, Some(<<>>)) }

InitEmptyUom ==
    /\ NODE_FILTERS \in FilterTables \cup {LateEmptyFilters}
    /\ ignore_identifier \in IgnoreTokens
    /\ sensor_identifier \in SensorTokens
    /\ nodes \in SeqsUpTo(EmptyUomNodes, MaxNodes)
    /\ ISY994_NODES = EmptyRegistry
    /\ log = <<>>
    /\ raised = NoError
    /\ reached = 0
    /\ calls = 0
    /\ first = EmptyRegistry
    /\ NoStatesCall /\ NoPrograms /\ NoVivint /\ NoAdapters

SpecEmptyUom == InitEmptyUom /\ [][Next]_vars

----------------------------------------------------------------------------
(* _categorize_nodes on nodes that lack attributes: objects on which       *)
(* hasattr is False for some of name, address, protocol, node_def_id, type *)
(* and uom, next to the nodes on which an attribute is None.               *)

AbsentNodes ==
    { Node(p_sens, Some(n_plain), Some(a_1), Some(PROTO_INSTEON), Some("Unknown"),
           Absent, Some(<<s_51>>)),
      Node(p_sens, Some(n_plain), Some(a_1), Some(PROTO_INSTEON), Some("Unknown"),
           Absent, Some(<<s_ON, s_Off>>)),
      Node(p_plain, Some(n_plain), Some(a_1), Some(PROTO_ZWAVE), Some("Unknown"),
           Absent, Some(<<s_2>>)),
      Node(p_plain, Some(n_plain), Some(a_1), Some(PROTO_ZWAVE), Some("BinaryAlarm"),
           Absent, Absent),
      Node(p_plain, Absent, Some(a_1), Some(PROTO_INSTEON), None, Some(ty_light), None),
      Node(p_sens, Absent, Some(a_1), Some(PROTO_INSTEON), None, Some(ty_light), None),
      Node(p_plain, Some(n_plain), Absent, Some(PROTO_INSTEON), Absent, Some(ty_fan),
           Absent),
      Node(p_plain, Some(n_plain), Some(a_1), Some(PROTO_GROUP), Absent, Absent,
           Absent),
      Node(p_plain, Some(n_plain), Some(a_1), Absent, Absent, Absent, Absent) }

InitAbsent ==
    /\ NODE_FILTERS \in FilterTables
    /\ ignore_identifier \in IgnoreTokens
    /\ sensor_identifier \in SensorTokens
    /\ nodes \in SeqsUpTo(AbsentNodes \cup SparseNodes, MaxNodes)
    /\ ISY994_NODES = EmptyRegistry
    /\ log = <<>>
    /\ raised = NoError
    /\ reached = 0
    /\ calls = 0
    /\ first = EmptyRegistry
    /\ NoStatesCall /\ NoPrograms /\ NoVivint /\ NoAdapters

SpecAbsent == InitAbsent /\ [][Next]_vars

----------------------------------------------------------------------------
(* _categorize_nodes with the empty string as the ignore token *)

EmptyIgnoreNodes == GroupNodes \cup SparseNodes \cup NodeDefNodes

InitEmptyIgnore ==
    /\ NODE_FILTERS \in FilterTables
    /\ ignore_identifier = Str0
    /\ sensor_identifier \in SensorTokens
    /\ nodes \in SeqsUpTo(EmptyIgnoreNodes, MaxNodes)
    /\ ISY994_NODES = EmptyRegistry
    /\ log = <<>>
    /\ raised = NoError
    /\ reached = 0
    /\ calls = 0
    /\ first = EmptyRegistry
    /\ NoStatesCall /\ NoPrograms /\ NoVivint /\ NoAdapters

SpecEmptyIgnore == InitEmptyIgnore /\ [][Next]_vars

----------------------------------------------------------------------------
(* _categorize_programs.  The program tree is, per program platform, the   *)
(* folder HA.<platform> (None when the hub has none): the list of its      *)
(* children.  A child has a dtype and, as an entity folder, the protocols  *)
(* of its "status" and "actions" children (None when it has no such        *)
(* child).  A child's name is its position in the folder.  A program       *)
(* object is written <<protocol>>.                                         *)

SUPPORTED_PROGRAM_PLATFORMS == <<BINARY_SENSOR, LOCK, FAN, COVER, SWITCH>>

ProgramPlatforms == Range(SUPPORTED_PROGRAM_PLATFORMS)

TAG_FOLDER == "folder"

TAG_PROGRAM == "program"

PROTO_PROGRAM == "program"

PROTO_FOLDER == "program_folder"

KEY_STATUS == "status"

KEY_ACTIONS == "actions"

\* _LOGGER.warning("Program %s entity '%s' not loaded, invalid/missing ... program.")
WarnProgram(hass, platform, name, key) ==
    [hass EXCEPT !.log = Append(@, <<platform, name, key>>)]

\* hass.data[ISY994_PROGRAMS][platform].append(entity)
AppendEntity(hass, platform, entity) ==
    [hass EXCEPT !.reg[platform] = Append(@, entity)]

\* not obj or not obj.protocol == PROTO_PROGRAM
NotAProgram(obj) == obj = None \/ obj[1] # PROTO_PROGRAM

\* Mutant of CategorizeEntity: the actions child is only tested for presence
CategorizeEntity_ActionsUnchecked(hass, platform, name, child) ==
    IF child.dtype # TAG_FOLDER THEN hass
    ELSE IF NotAProgram(child.status)
         THEN WarnProgram(hass, platform, name, KEY_STATUS)
    ELSE IF platform # BINARY_SENSOR
         THEN IF child.actions = None
              THEN WarnProgram(hass, platform, name, KEY_ACTIONS)
              ELSE AppendEntity(hass, platform, <<name, child.status, child.actions>>)
    ELSE AppendEntity(hass, platform, <<name, child.status, None>>)

\* Mutant of CategorizeEntity: the actions child is looked up for every
\* platform, binary_sensor included
CategorizeEntity_ActionsForAll(hass, platform, name, child) ==
    IF child.dtype # TAG_FOLDER THEN hass
    ELSE IF NotAProgram(child.status)
         THEN WarnProgram(hass, platform, name, KEY_STATUS)
    ELSE IF NotAProgram(child.actions)
         THEN WarnProgram(hass, platform, name, KEY_ACTIONS)
    ELSE AppendEntity(hass, platform, <<name, child.status, child.actions>>)

\* The body of the loop over folder.children
CategorizeEntity(hass, platform, name, child) ==
    IF child.dtype # TAG_FOLDER THEN hass
    ELSE IF NotAProgram(child.status)
         THEN WarnProgram(hass, platform, name, KEY_STATUS)
    ELSE IF platform # BINARY_SENSOR
         THEN IF NotAProgram(child.actions)
              THEN WarnProgram(hass, platform, name, KEY_ACTIONS)
              ELSE AppendEntity(hass, platform, <<name, child.status, child.actions>>)
    ELSE AppendEntity(hass, platform, <<name, child.status, None>>)

\* for dtype, _, node_id in folder.children, from the j-th child on
RECURSIVE CategorizeChildren(_, _, _, _)
CategorizeChildren(hass, platform, children, j) ==
    IF j > Len(children) THEN hass
    ELSE CategorizeChildren(CategorizeEntity(hass, platform, j, children[j]),
                            platform, children, j + 1)

\* for platform in SUPPORTED_PROGRAM_PLATFORMS, from the i-th platform on
RECURSIVE CategorizePlatforms(_, _)
CategorizePlatforms(hass, i) ==
    IF i > Len(SUPPORTED_PROGRAM_PLATFORMS) THEN hass
    ELSE LET platform == SUPPORTED_PROGRAM_PLATFORMS[i]
             folder == programs[platform]
         IN  IF folder = None THEN CategorizePlatforms(hass, i + 1)
             ELSE CategorizePlatforms(
                      CategorizeChildren(hass, platform, folder[1], 1), i + 1)

categorize_programs(hass) == CategorizePlatforms(hass, 1)

\* The children a folder may hold
ChildUniverse ==
    [dtype : {TAG_FOLDER}, status : {None, Some(PROTO_PROGRAM), Some(PROTO_FOLDER)},
     actions : {None, Some(PROTO_PROGRAM), Some(PROTO_FOLDER)}]
    \cup {[dtype |-> TAG_PROGRAM, status |-> None, actions |-> None]}

EmptyProgramRegistry == [p \in ProgramPlatforms |-> <<>>]

\* The hub holds the same children under every HA.<platform> folder it has
InitPrograms ==
    /\ \E present \in SUBSET ProgramPlatforms :
       \E children \in SeqsUpTo(ChildUniverse, MaxChildren) :
           programs = [p \in ProgramPlatforms |->
                          IF p \in present THEN Some(children) ELSE None]
    /\ ISY994_PROGRAMS = EmptyProgramRegistry
    /\ program_log = <<>>
    /\ calls = 0
    /\ NODE_FILTERS = ShippedFilters
    /\ ignore_identifier \in IgnoreTokens
    /\ sensor_identifier \in SensorTokens
    /\ nodes = <<>>
    /\ ISY994_NODES = EmptyRegistry
    /\ log = <<>>
    /\ raised = NoError
    /\ reached = 0
    /\ first = EmptyRegistry
    /\ NoStatesCall /\ NoVivint /\ NoAdapters

\* A call _categorize_programs(hass, programs)
CategorizePrograms ==
    /\ calls < MaxCalls
    /\ LET r == categorize_programs([reg |-> ISY994_PROGRAMS, log |-> program_log])
       IN  /\ ISY994_PROGRAMS' = r.reg
           /\ program_log' = r.log
    /\ calls' = calls + 1
    /\ UNCHANGED <<NODE_FILTERS, ignore_identifier, sensor_identifier, nodes,
                   ISY994_NODES, log, raised, reached, first>>
    /\ UNCHANGED <<programs, states_call, vivintVars, adapterVars>>

NextPrograms == CategorizePrograms

SpecPrograms == InitPrograms /\ [][NextPrograms]_vars

----------------------------------------------------------------------------
(* The Vivint config flow.  A dict is a record of its possible keys, an     *)
(* absent key being None (what dict.get returns for it); user_input is     *)
(* None or Some(dict).  flow is the history of the calls of                *)
(* async_step_user: the input, whether VivintSky.connect() would succeed,  *)
(* and the result.                                                         *)

Dict(u, p, b) == [username |-> u, password |-> p, base |-> b]

EmptyDict == Dict(None, None, None)

FlowResult(type, step_id, errors, reason, title, data) ==
    [type |-> type, step_id |-> step_id, errors |-> errors, reason |-> reason,
     title |-> title, data |-> data]

\* self.async_show_form(step_id="user", data_schema=..., errors=errors or {})
show_setup_form(errors) ==
    FlowResult("form", "user", IF errors = None THEN EmptyDict ELSE errors[1],
               "", "", EmptyDict)

async_abort(reason) == FlowResult("abort", "", EmptyDict, reason, "", EmptyDict)

async_create_entry(title, data) ==
    FlowResult("create_entry", "", EmptyDict, "", title, data)

\* An exception that leaves async_step_user
FlowRaise(exc) == FlowResult("raise", "", EmptyDict, exc, "", EmptyDict)

async_step_user(user_input, connect_ok) ==
    IF current_entries # 0 THEN async_abort("single_instance_allowed")
    ELSE IF user_input # None THEN show_setup_form(user_input)
    \* user_input.get(...) on None
    ELSE IF user_input = None THEN FlowRaise("AttributeError")
    ELSE IF ~connect_ok
         THEN show_setup_form(Some(Dict(None, None, Some("connection_error"))))
    ELSE async_create_entry("Vivint",
             Dict(user_input[1].username, user_input[1].password, None))

Usernames == {None, Some("user")}

Passwords == {None, Some("secret")}

UserInputs ==
    {None} \cup {Some(Dict(u, p, None)) : u \in Usernames, p \in Passwords}

InitVivint ==
    /\ current_entries \in 0..1
    /\ flow = <<>>
    /\ NODE_FILTERS = ShippedFilters
    /\ ignore_identifier \in IgnoreTokens
    /\ sensor_identifier \in SensorTokens
    /\ nodes = <<>>
    /\ ISY994_NODES = EmptyRegistry
    /\ log = <<>>
    /\ raised = NoError
    /\ reached = 0
    /\ calls = 0
    /\ first = EmptyRegistry
    /\ NoStatesCall /\ NoPrograms /\ NoAdapters

\* The flow manager calls async_step_user and, on a create-entry result,
\* adds the config entry
StepUser ==
    /\ Len(flow) < MaxSteps
    /\ \E user_input \in UserInputs, connect_ok \in BOOLEAN :
          LET result == async_step_user(user_input, connect_ok)
          IN  /\ flow' = Append(flow, [user_input |-> user_input,
                                       connect_ok |-> connect_ok,
                                       result |-> result])
              /\ current_entries' = IF result.type = "create_entry"
                                    THEN current_entries + 1
                                    ELSE current_entries
    /\ UNCHANGED <<classifierVars, states_call, programVars, adapterVars>>

NextVivint == StepUser

SpecVivint == InitVivint /\ [][NextVivint]_vars

----------------------------------------------------------------------------
(* _check_for_states_in_uom called on its own, once, on one node and an    *)
(* empty registry.  states_call records the arguments and what the call    *)
(* returned.                                                               *)

\* Nodes that differ in their uom only
StatesNodes ==
    { Node(p_plain, Some(n_plain), Some(a_2), Some(PROTO_ZWAVE), None, None, u) :
        u \in { Absent, None, Some(<<>>), Some(<<s_on, s_off>>), Some(<<s_ON, s_Off>>),
                Some(<<s_on>>), Some(<<s_on, s_off, s_pct>>),
                Some(<<s_locked, s_unlocked>>), Some(<<s_2>>) } }

\* states_list: not given, the list _is_sensor_a_binary_sensor gives, and one
\* in another case
StatesLists == {<<>>, <<s_on, s_off>>, <<s_ON, s_off>>}

InitStates ==
    /\ NODE_FILTERS \in FilterTables
    /\ ignore_identifier \in IgnoreTokens
    /\ sensor_identifier \in SensorTokens
    /\ nodes \in [1..1 -> StatesNodes]
    /\ ISY994_NODES = EmptyRegistry
    /\ log = <<>>
    /\ raised = NoError
    /\ reached = 0
    /\ calls = 0
    /\ first = EmptyRegistry
    /\ NoStatesCall /\ NoPrograms /\ NoVivint /\ NoAdapters

\* A call _check_for_states_in_uom(hass, node, single_platform, states_list);
\* a states_list is given together with a single_platform only
CheckStates ==
    /\ states_call = <<>>
    /\ \E single_platform \in {None} \cup {Some(p) : p \in Platforms},
          states_list \in StatesLists :
          /\ states_list # <<>> => single_platform # None
          /\ LET r == check_for_states_in_uom([reg |-> ISY994_NODES, log |-> log],
                                              1, nodes[1], single_platform, states_list)
             IN  /\ ISY994_NODES' = r.hass.reg
                 /\ states_call' = <<[single_platform |-> single_platform,
                                      states_list |-> states_list,
                                      ok |-> r.ok]>>
    /\ UNCHANGED <<NODE_FILTERS, ignore_identifier, sensor_identifier, nodes,
                   log, raised, reached, calls, first>>
    /\ UNCHANGED <<programVars, vivintVars, adapterVars>>

NextStates == CheckStates

SpecStates == InitStates /\ [][NextStates]_vars

----------------------------------------------------------------------------
(* ISYNodeEntity.device_state_attributes.  A dict is a function from its   *)
(* possible keys to options, None for a key it does not hold.  The node    *)
(* has aux_properties, a dict from property name to the property's         *)
(* formatted value, and group_all_on; either attribute may be Absent.  The *)
(* dict a read returns is self._attrs itself.                              *)

COMMAND_FRIENDLY_NAME == [ST |-> "status"]

\* COMMAND_FRIENDLY_NAME.get(name, name)
FriendlyName(name) ==
    IF name \in DOMAIN COMMAND_FRIENDLY_NAME THEN COMMAND_FRIENDLY_NAME[name] ELSE name

STATE_ON == s_on

STATE_OFF == s_off

\* Property names the hub reports: one with a friendly name, one without
AuxNames == {"ST", "CUSTOM"}

\* Formatted values of a property
Formatted == {s_ON, s_off}

AttrNames == {FriendlyName(name) : name \in AuxNames} \cup {"group_all_on"}

EmptyAttrs == [k \in AttrNames |-> None]

AuxProperties == [AuxNames -> {None} \cup {Some(f) : f \in Formatted}]

EntityNodes ==
    [aux_properties : {Absent} \cup {Some(a) : a \in AuxProperties},
     group_all_on : {Absent, Some(TRUE), Some(FALSE)}]

\* attr as lines 97-106 build it
BuildAttr(node) ==
    [k \in AttrNames |->
        IF k = "group_all_on" /\ HasAttr(node.group_all_on)
        THEN Some(IF node.group_all_on[1] THEN STATE_ON ELSE STATE_OFF)
        ELSE IF /\ HasAttr(node.aux_properties)
                /\ \E name \in AuxNames :
                      FriendlyName(name) = k /\ node.aux_properties[1][name] # None
        THEN LET name == CHOOSE n \in AuxNames :
                            FriendlyName(n) = k /\ node.aux_properties[1][n] # None
             IN  Some(Lower(node.aux_properties[1][name][1]))
        ELSE None]

\* dict.update
DictUpdate(old, new) == [k \in AttrNames |-> IF new[k] # None THEN new[k] ELSE old[k]]

\* Mutant of device_state_attributes: self._attrs = attr
device_state_attributes_Replace(attrs, node) == BuildAttr(node)

\* The new self._attrs, which is also what the read returns
device_state_attributes(attrs, node) == DictUpdate(attrs, BuildAttr(node))

Keys(dict) == {k \in AttrNames : dict[k] # None}

InitEntity ==
    /\ \E node \in EntityNodes :
          isy_entity = [node |-> node, attrs |-> EmptyAttrs, reads |-> 0,
                        read_node |-> node, keys_returned |-> {}]
    /\ zha_load = <<>>
    /\ zha_entry = <<>>
    /\ NODE_FILTERS = ShippedFilters
    /\ ignore_identifier \in IgnoreTokens
    /\ sensor_identifier \in SensorTokens
    /\ nodes = <<>>
    /\ ISY994_NODES = EmptyRegistry
    /\ log = <<>>
    /\ raised = NoError
    /\ reached = 0
    /\ calls = 0
    /\ first = EmptyRegistry
    /\ NoStatesCall /\ NoPrograms /\ NoVivint

\* The hub changes the node's properties
NodeChanges ==
    /\ \E node \in EntityNodes :
          /\ node # isy_entity.node
          /\ isy_entity' = [isy_entity EXCEPT !.node = node]
    /\ UNCHANGED <<classifierVars, states_call, programVars, vivintVars,
                   zha_load, zha_entry>>

\* A read of entity.device_state_attributes.  keys_returned are the keys
\* that reads before this one returned, read_node the node as this read
\* found it.
ReadAttributes ==
    /\ isy_entity.reads < MaxReads
    /\ isy_entity' =
          [isy_entity EXCEPT
              !.attrs = device_state_attributes(isy_entity.attrs, isy_entity.node),
              !.reads = @ + 1,
              !.read_node = isy_entity.node,
              !.keys_returned = IF isy_entity.reads = 0 THEN {}
                                ELSE @ \cup Keys(isy_entity.attrs)]
    /\ UNCHANGED <<classifierVars, states_call, programVars, vivintVars,
                   zha_load, zha_entry>>

NextEntity == NodeChanges \/ ReadAttributes

SpecEntity == InitEntity /\ [][NextEntity]_vars

----------------------------------------------------------------------------
(* ZHA setup.  async_setup_entry creates one platform setup task per       *)
(* component and later schedules async_load_entities; the tasks run on     *)
(* their own and end normally or with an exception.  zha_load holds:       *)
(*   setup    how far async_setup_entry is: "start", "tasks", "done"       *)
(*   tasks    component -> "none", "pending", "done", "raised"             *)
(*   gateway  async_initialize_devices_and_entities: "idle", "running",    *)
(*            "done", "raised"                                             *)
(*   load     async_load_entities: "idle", "scheduled", "gateway",         *)
(*            "gather", "done", "failed"                                   *)
(*   warnings the components logged with "Couldn't setup zha platform"     *)
(*   signal   SIGNAL_ADD_ENTITIES was dispatched                           *)

COMPONENTS == <<"binary_sensor", "light", "sensor">>

Components == Range(COMPONENTS)

TasksFinished(z) == \A c \in Components : z.tasks[c] \in {"done", "raised"}

\* The warnings of the loop over results, from the k-th result on
RECURSIVE WarnRaised(_, _, _)
WarnRaised(z, warnings, k) ==
    IF k > Len(COMPONENTS) THEN warnings
    ELSE WarnRaised(z,
                    IF z.tasks[COMPONENTS[k]] = "raised"
                    THEN Append(warnings, COMPONENTS[k]) ELSE warnings,
                    k + 1)

\* Mutant of load_entities_finish: gather without return_exceptions, the
\* first exception leaves async_load_entities
load_entities_finish_Propagate(z) ==
    IF \E c \in Components : z.tasks[c] = "raised"
    THEN [z EXCEPT !.load = "failed"]
    ELSE [z EXCEPT !.signal = TRUE, !.load = "done"]

\* Lines 149-153: gather has every result; log the exceptions, dispatch
load_entities_finish(z) ==
    [z EXCEPT !.warnings = WarnRaised(z, @, 1), !.signal = TRUE, !.load = "done"]

InitZhaLoad ==
    /\ zha_load = [setup |-> "start", tasks |-> [c \in Components |-> "none"],
                   gateway |-> "idle", load |-> "idle", warnings |-> <<>>,
                   signal |-> FALSE]
    /\ isy_entity = <<>>
    /\ zha_entry = <<>>
    /\ NODE_FILTERS = ShippedFilters
    /\ ignore_identifier \in IgnoreTokens
    /\ sensor_identifier \in SensorTokens
    /\ nodes = <<>>
    /\ ISY994_NODES = EmptyRegistry
    /\ log = <<>>
    /\ raised = NoError
    /\ reached = 0
    /\ calls = 0
    /\ first = EmptyRegistry
    /\ NoStatesCall /\ NoPrograms /\ NoVivint

ZhaUnchanged ==
    UNCHANGED <<classifierVars, states_call, programVars, vivintVars,
                isy_entity, zha_entry>>

\* async_setup_entry, lines 100-104: the platform setup tasks are created
SetupCreateTasks ==
    /\ zha_load.setup = "start"
    /\ zha_load' = [zha_load EXCEPT !.setup = "tasks",
                                    !.tasks = [c \in Components |-> "pending"]]
    /\ ZhaUnchanged

\* async_setup_entry, line 124: async_load_entities is scheduled
SetupScheduleLoad ==
    /\ zha_load.setup = "tasks"
    /\ zha_load' = [zha_load EXCEPT !.setup = "done", !.load = "scheduled"]
    /\ ZhaUnchanged

\* A platform setup task ends, normally or with an exception
TaskEnds ==
    /\ \E c \in Components, outcome \in {"done", "raised"} :
          /\ zha_load.tasks[c] = "pending"
          /\ zha_load' = [zha_load EXCEPT !.tasks[c] = outcome]
    /\ ZhaUnchanged

\* async_load_entities, line 147: the gateway starts to initialize
LoadStarts ==
    /\ zha_load.load = "scheduled"
    /\ zha_load' = [zha_load EXCEPT !.load = "gateway", !.gateway = "running"]
    /\ ZhaUnchanged

\* async_initialize_devices_and_entities ends; an exception of it leaves
\* async_load_entities
GatewayEnds ==
    /\ zha_load.gateway = "running"
    /\ \/ zha_load' = [zha_load EXCEPT !.gateway = "done", !.load = "gather"]
       \/ zha_load' = [zha_load EXCEPT !.gateway = "raised", !.load = "failed"]
    /\ ZhaUnchanged

\* async_load_entities, lines 148-153, once gather has every task's result
LoadFinishes ==
    /\ zha_load.load = "gather"
    /\ TasksFinished(zha_load)
    /\ zha_load' = load_entities_finish(zha_load)
    /\ ZhaUnchanged

NextZhaLoad ==
    \/ SetupCreateTasks
    \/ SetupScheduleLoad
    \/ TaskEnds
    \/ LoadStarts
    \/ GatewayEnds
    \/ LoadFinishes

SpecZhaLoad == InitZhaLoad /\ [][NextZhaLoad]_vars

----------------------------------------------------------------------------
(* async_migrate_entry.  Entry data is a record of its possible keys,      *)
(* None for a key it does not hold; the radio type is the name the entry   *)
(* holds.  RadioType is defined outside this source, so what the test      *)
(* data[CONF_RADIO_TYPE] != RadioType.deconz answers for a given entry is  *)
(* not fixed here: the answer is an input of the call, and both answers    *)
(* are taken for every radio type.                                         *)

BAUD_RATES == {57600, 115200}

EntryData(radio_type, usb_path, device) ==
    [radio_type |-> radio_type, usb_path |-> usb_path, device |-> device]

Device(path, baudrate) == [path |-> path, baudrate |-> baudrate]

\* baudrate is hass.data[DATA_ZHA].get(DATA_ZHA_CONFIG, {}).get(CONF_BAUDRATE)
\* differs is what data[CONF_RADIO_TYPE] != RadioType.deconz answers
async_migrate_entry(config_entry, baudrate, differs) ==
    IF config_entry.version = 1
    THEN LET device == Device(config_entry.data.usb_path[1],
                              IF /\ differs
                                 /\ baudrate # None
                                 /\ baudrate[1] \in BAUD_RATES
                              THEN baudrate ELSE None)
         IN  [entry |-> [version |-> 2,
                         data |-> EntryData(config_entry.data.radio_type, None,
                                            Some(device))],
              result |-> TRUE]
    ELSE [entry |-> config_entry, result |-> TRUE]

RadioTypeValues == {"ezsp", "deconz"}

UsbPaths == {"/dev/ttyUSB0", "/dev/ttyACM0"}

ConfiguredBaudrates == {None, Some(115200), Some(1234)}

\* Entries as a version-1 and a version-2 config flow left them
ZhaEntries ==
    {[version |-> 1, data |-> EntryData(r, Some(u), None)] :
        r \in RadioTypeValues, u \in UsbPaths}
    \cup
    {[version |-> 2, data |-> EntryData(r, None, Some(Device(u, b)))] :
        r \in RadioTypeValues, u \in UsbPaths, b \in {None, Some(115200)}}

InitZhaEntry ==
    /\ \E e \in ZhaEntries, b \in ConfiguredBaudrates, d \in BOOLEAN :
          zha_entry = [entry |-> e, baudrate |-> b, differs |-> d,
                       migrations |-> <<>>]
    /\ isy_entity = <<>>
    /\ zha_load = <<>>
    /\ NODE_FILTERS = ShippedFilters
    /\ ignore_identifier \in IgnoreTokens
    /\ sensor_identifier \in SensorTokens
    /\ nodes = <<>>
    /\ ISY994_NODES = EmptyRegistry
    /\ log = <<>>
    /\ raised = NoError
    /\ reached = 0
    /\ calls = 0
    /\ first = EmptyRegistry
    /\ NoStatesCall /\ NoPrograms /\ NoVivint

\* A call async_migrate_entry(hass, config_entry)
MigrateEntry ==
    /\ Len(zha_entry.migrations) < MaxMigrations
    /\ LET r == async_migrate_entry(zha_entry.entry, zha_entry.baudrate,
                                    zha_entry.differs)
       IN  zha_entry' =
              [zha_entry EXCEPT
                  !.entry = r.entry,
                  !.migrations = Append(@, [before |-> zha_entry.entry,
                                            after |-> r.entry,
                                            result |-> r.result])]
    /\ UNCHANGED <<classifierVars, states_call, programVars, vivintVars,
                   isy_entity, zha_load>>

NextZhaEntry == MigrateEntry

SpecZhaEntry == InitZhaEntry /\ [][NextZhaEntry]_vars

----------------------------------------------------------------------------
(* Vocabulary of the properties.  These describe a node by its attributes  *)
(* and the tables alone; none of them uses the matchers above.             *)

\* The loop of the last call reached the k-th node
Started(k) == calls >= 1 /\ k \in 1..Len(nodes) /\ k <= reached

InList(k, p) == \E j \in 1..Len(ISY994_NODES[p]) : ISY994_NODES[p][j] = k

\* The places <<platform, position>> at which node k is registered
Places(k) ==
    {pj \in UNION {{<<p, j>> : j \in 1..Len(ISY994_NODES[p])} : p \in Platforms} :
        ISY994_NODES[pj[1]][pj[2]] = k}

Logged(k) == \E j \in 1..Len(log) : log[j] = k

\* Node k is in the list of platform p and registered nowhere else
OnlyIn(k, p) == \A q \in Platforms : InList(k, q) <=> q = p

HasToken(node, tok) ==
    \/ Contains(node.path, tok)
    \/ ~Lacks(node.name) /\ Contains(node.name[1], tok)

LacksToken(node, tok) ==
    /\ ~Contains(node.path, tok)
    /\ ~Lacks(node.name)
    /\ ~Contains(node.name[1], tok)

IsGroup(node) == HasAttr(node.protocol) /\ node.protocol = Some(PROTO_GROUP)

\* The node takes the generic path: not ignored, no group, no sensor token
IsGeneric(node) ==
    /\ LacksToken(node, ignore_identifier)
    /\ ~IsGroup(node)
    /\ LacksToken(node, sensor_identifier)

\* The node takes the sensor-override path
IsSensorOverride(node) ==
    /\ LacksToken(node, ignore_identifier)
    /\ ~IsGroup(node)
    /\ HasToken(node, sensor_identifier)

Index(p) == CHOOSE k \in 1..Len(SUPPORTED_PLATFORMS) : SUPPORTED_PLATFORMS[k] = p

\* The platform of highest priority in a non-empty set of platforms
FirstOf(S) == CHOOSE p \in S : \A q \in S : Index(p) <= Index(q)

DefPlatforms(node) ==
    {p \in Platforms :
        ~Lacks(node.node_def_id) /\ node.node_def_id[1] \in NODE_FILTERS[p].node_def_id}

TypePlatforms(node) ==
    {p \in Platforms :
        /\ node.protocol = Some(PROTO_INSTEON)
        /\ ~Lacks(node.type)
        /\ \E t \in NODE_FILTERS[p].insteon_type : StartsWith(node.type[1], t)}

LoweredUom(node) == {Lower(node.uom[1][j]) : j \in 1..Len(node.uom[1])}

UomPlatforms(node) ==
    {p \in Platforms :
        ~Lacks(node.uom) /\ \E u \in LoweredUom(node) : u \in NODE_FILTERS[p].uom}

StatesPlatforms(node) ==
    {p \in Platforms : ~Lacks(node.uom) /\ LoweredUom(node) = NODE_FILTERS[p].states}

EndsIn(node, c) ==
    /\ ~Lacks(node.address)
    /\ Len(node.address[1]) >= 1
    /\ node.address[1][Len(node.address[1])] = c

\* The platform the first matching generic matcher names, <<>> if none matches
FirstMatch(node) ==
    IF DefPlatforms(node) # {} THEN <<FirstOf(DefPlatforms(node))>>
    ELSE IF TypePlatforms(node) # {}
         THEN IF FirstOf(TypePlatforms(node)) = FAN /\ EndsIn(node, "1")
              THEN <<LIGHT>>
              ELSE <<FirstOf(TypePlatforms(node))>>
    ELSE IF UomPlatforms(node) # {} THEN <<FirstOf(UomPlatforms(node))>>
    ELSE IF StatesPlatforms(node) # {} THEN <<FirstOf(StatesPlatforms(node))>>
    ELSE <<>>

----------------------------------------------------------------------------
(* C1 *)

\* C1: after one call on empty platform lists, every node is registered at
\* most once over all platform lists together.
C1_AtMostOnce ==
    calls = 1 => \A k \in 1..Len(nodes) : Cardinality(Places(k)) <= 1

C1_Witness ==
    /\ calls = 1
    /\ Len(nodes) = 2
    /\ \E p \in Platforms : InList(1, p) /\ InList(2, p)
    /\ IsSensorOverride(nodes[1])

----------------------------------------------------------------------------
(* C2 *)

\* C2: a node on the generic path that the loop reached is registered with
\* the platform named by the first matcher that matches (node_def_id,
\* Insteon type, uom token, uom as states; platforms in SUPPORTED_PLATFORMS
\* order), and nowhere else.
C2_FirstMatcherWins ==
    \A k \in 1..Len(nodes) :
        (Started(k) /\ IsGeneric(nodes[k]) /\ FirstMatch(nodes[k]) # <<>>)
            => OnlyIn(k, FirstMatch(nodes[k])[1])

\* The claim fails on a node whose Insteon type matches fan and whose
\* address does not end in a digit: the matcher raises and registers nothing.

----------------------------------------------------------------------------
(* C3 *)

\* C3 as claimed: every node the loop reached whose node_def_id is in exactly
\* one platform's node-def set is in that platform's list and no other.
C3_Original ==
    \A k \in 1..Len(nodes) :
        (Started(k) /\ Cardinality(DefPlatforms(nodes[k])) = 1)
            => OnlyIn(k, FirstOf(DefPlatforms(nodes[k])))

\* C3, amended: a node on the generic path (not ignored, no group, no sensor
\* token) that the loop reached and whose node_def_id is in exactly one
\* platform's node-def set is in that platform's list and in no other.
C3_NodeDefExactlyOne ==
    \A k \in 1..Len(nodes) :
        (Started(k) /\ IsGeneric(nodes[k]) /\ Cardinality(DefPlatforms(nodes[k])) = 1)
            => OnlyIn(k, FirstOf(DefPlatforms(nodes[k])))

C3_Witness ==
    \E k \in 1..Len(nodes) :
        /\ Started(k) /\ IsGeneric(nodes[k])
        /\ DefPlatforms(nodes[k]) = {BINARY_SENSOR}
        /\ TypePlatforms(nodes[k]) # {}
        /\ InList(k, BINARY_SENSOR)

----------------------------------------------------------------------------
(* C4 *)

\* C4 as claimed: every node of the group protocol that the loop reached is
\* in the ISY_GROUP_PLATFORM list.
C4_Original ==
    \A k \in 1..Len(nodes) :
        (Started(k) /\ IsGroup(nodes[k])) => InList(k, ISY_GROUP_PLATFORM)

\* C4, amended: every node of the group protocol that the loop reached and
\* whose path and name do not hold the ignore token is in the
\* ISY_GROUP_PLATFORM list and in no other, whatever its other attributes.
C4_GroupToGroupPlatform ==
    \A k \in 1..Len(nodes) :
        (Started(k) /\ IsGroup(nodes[k]) /\ LacksToken(nodes[k], ignore_identifier))
            => OnlyIn(k, ISY_GROUP_PLATFORM)

C4_Witness ==
    \E k \in 1..Len(nodes) :
        /\ Started(k) /\ IsGroup(nodes[k])
        /\ HasToken(nodes[k], sensor_identifier)
        /\ DefPlatforms(nodes[k]) # {}
        /\ InList(k, ISY_GROUP_PLATFORM)

----------------------------------------------------------------------------
(* C5 *)

\* C5: a node whose path or name holds the ignore token is in no platform
\* list, and no "Unsupported node" warning is logged for it.
C5_IgnoredLeftOut ==
    \A k \in 1..Len(nodes) :
        HasToken(nodes[k], ignore_identifier) => Places(k) = {} /\ ~Logged(k)

C5_Witness ==
    /\ Len(nodes) = 2
    /\ Started(2)
    /\ Contains(nodes[1].path, ignore_identifier)
    /\ nodes[1].node_def_id = Some("Unknown")
    /\ ~Lacks(nodes[2].name) /\ Contains(nodes[2].name[1], ignore_identifier)
    /\ raised = NoError

----------------------------------------------------------------------------
(* C6 *)

\* C6 as claimed: a node the loop reached whose type starts with one of the
\* fan platform's prefixes and whose address ends in "1" is in the light
\* list and not in the fan list.
C6_Original ==
    \A k \in 1..Len(nodes) :
        ( /\ Started(k)
          /\ ~Lacks(nodes[k].type)
          /\ \E t \in NODE_FILTERS[FAN].insteon_type : StartsWith(nodes[k].type[1], t)
          /\ EndsIn(nodes[k], "1") )
            => InList(k, LIGHT) /\ ~InList(k, FAN)

\* C6, amended: a node on the generic path that the loop reached, that no
\* platform's node-def set matches, whose protocol is Insteon, for which
\* fan is the first platform in SUPPORTED_PLATFORMS order with a matching
\* type prefix, and whose address ends in "1", is in the light list and in
\* no other list.
C6_FanLincLight ==
    \A k \in 1..Len(nodes) :
        ( /\ Started(k) /\ IsGeneric(nodes[k])
          /\ DefPlatforms(nodes[k]) = {}
          /\ TypePlatforms(nodes[k]) # {}
          /\ FirstOf(TypePlatforms(nodes[k])) = FAN
          /\ EndsIn(nodes[k], "1") )
            => OnlyIn(k, LIGHT)

C6_Witness ==
    \E k \in 1..Len(nodes) :
        /\ Started(k) /\ IsGeneric(nodes[k])
        /\ DefPlatforms(nodes[k]) = {}
        /\ FAN \in TypePlatforms(nodes[k])
        /\ EndsIn(nodes[k], "1")
        /\ UomPlatforms(nodes[k]) = {SWITCH}
        /\ InList(k, LIGHT)

----------------------------------------------------------------------------
(* C7 *)

\* The four binary-sensor checks of the sensor-override branch
BinarySensorChecks(node) ==
    \/ BINARY_SENSOR \in DefPlatforms(node)
    \/ BINARY_SENSOR \in TypePlatforms(node)
    \/ ~Lacks(node.uom) /\ LoweredUom(node) \cap {s_2, s_78} # {}
    \/ ~Lacks(node.uom) /\ LoweredUom(node) = {s_on, s_off}

\* C7: a node that is not ignored, is no group and carries the sensor token
\* is, once the loop reached it, registered exactly once: in the
\* binary_sensor list when one of the four binary-sensor checks matches, in
\* the sensor list otherwise, and in no list that generic matching would
\* have chosen.
C7_SensorOverride ==
    \A k \in 1..Len(nodes) :
        (Started(k) /\ IsSensorOverride(nodes[k]))
            => /\ OnlyIn(k, IF BinarySensorChecks(nodes[k]) THEN BINARY_SENSOR ELSE SENSOR)
               /\ Cardinality(Places(k)) = calls

\* The claim fails on a node that has a node_def_id no platform lists and no
\* type attribute: the warning of the node-def check reads node.type, the
\* call ends with AttributeError and the node is in neither list.

----------------------------------------------------------------------------
(* C8 *)

\* C8: a node that is not ignored, is no group, carries the sensor token and
\* whose lower-cased uom set is {"on", "off"} is, once the loop reached it,
\* in the binary_sensor list and in no other, whatever the binary_sensor and
\* sensor platforms' own uom and states tables hold.
C8_OnOffIsBinarySensor ==
    \A k \in 1..Len(nodes) :
        ( /\ Started(k) /\ IsSensorOverride(nodes[k])
          /\ ~Lacks(nodes[k].uom)
          /\ LoweredUom(nodes[k]) = {s_on, s_off} )
            => OnlyIn(k, BINARY_SENSOR)

\* The claim fails on a node that has a node_def_id no platform lists and no
\* type attribute: the node-def check, which runs first, ends with
\* AttributeError before the states check is reached.

----------------------------------------------------------------------------
(* C9 *)

RECURSIVE Repeat(_, _)
Repeat(s, n) == IF n = 0 THEN <<>> ELSE s \o Repeat(s, n - 1)

\* C9 as claimed: after a second call on the same nodes and the same
\* registry every platform list is what the first call left.
C9_Original == calls = 2 => ISY994_NODES = first

\* C9, amended: every call on the same nodes appends to every platform list
\* the same nodes in the same order as the first call did, so after n calls
\* on the same registry each list is its first-call content n times over.
C9_CallsRepeat ==
    calls >= 1 => \A p \in Platforms : ISY994_NODES[p] = Repeat(first[p], calls)

C9_Witness ==
    /\ calls = 2
    /\ Len(nodes) = 2
    /\ \E p \in Platforms : first[p] = <<1, 2>> /\ ISY994_NODES[p] = <<1, 2, 1, 2>>

----------------------------------------------------------------------------
(* C10 *)

\* C10: no call of _categorize_nodes ends with an exception.
C10_NoError == raised = NoError

----------------------------------------------------------------------------
(* C11 *)

\* The node lacks one of its optional attributes: the attribute is absent
\* or None
LacksSome(node) ==
    \/ Lacks(node.name) \/ Lacks(node.address) \/ Lacks(node.protocol)
    \/ Lacks(node.node_def_id) \/ Lacks(node.type) \/ Lacks(node.uom)

\* C11: a check never faults on an attribute that is absent or None: no call
\* ends, on a node that lacks an attribute, with the AttributeError that a
\* read of an absent attribute raises or the TypeError that a test on None
\* raises.
C11_NullNeverFaults ==
    \A k \in 1..Len(nodes) :
        (Started(k) /\ LacksSome(nodes[k]))
            => ~(k = reached /\ raised \in {"AttributeError", "TypeError"})

----------------------------------------------------------------------------
(* C12 *)

\* The loop of the last call finished its work on the k-th node
Finished(k) == Started(k) /\ (k < reached \/ raised = NoError)

\* C12: for a node the loop finished with, "Unsupported node" is logged
\* exactly when the node is not ignored and is in no platform list.
C12_WarnIffUnclassified ==
    \A k \in 1..Len(nodes) :
        Finished(k)
            => (Logged(k) <=> (~HasToken(nodes[k], ignore_identifier) /\ Places(k) = {}))

----------------------------------------------------------------------------
(* C13, C14 *)

\* The entities registered for platform p under the name j
EntitiesOf(p, j) ==
    {e \in Range(ISY994_PROGRAMS[p]) : e[1] = j}

ProgramWarned(p, j, key) ==
    \E w \in 1..Len(program_log) : program_log[w] = <<p, j, key>>

IsProgram(obj) == obj # None /\ obj[1] = PROTO_PROGRAM

\* C13: for a program platform other than binary_sensor, an entity folder
\* with a valid status program whose actions child is missing or no program
\* is not registered and a warning about its actions is logged; every
\* entity registered for such a platform has an actions program.
C13_ActionsRequired ==
    calls >= 1 =>
        \A p \in ProgramPlatforms \ {BINARY_SENSOR} :
            /\ programs[p] # None =>
                 \A j \in 1..Len(programs[p][1]) :
                    LET child == programs[p][1][j]
                    IN  ( /\ child.dtype = TAG_FOLDER
                          /\ IsProgram(child.status)
                          /\ ~IsProgram(child.actions) )
                            => EntitiesOf(p, j) = {} /\ ProgramWarned(p, j, KEY_ACTIONS)
            /\ \A e \in Range(ISY994_PROGRAMS[p]) : IsProgram(e[3])

C13_Witness ==
    /\ calls = 1
    /\ programs[SWITCH] # None
    /\ Len(programs[SWITCH][1]) = 2
    /\ programs[SWITCH][1][1] =
          [dtype |-> TAG_FOLDER, status |-> Some(PROTO_PROGRAM), actions |-> Some(PROTO_FOLDER)]
    /\ ProgramWarned(SWITCH, 1, KEY_ACTIONS)
    /\ Len(ISY994_PROGRAMS[SWITCH]) = 1

\* C14: for binary_sensor an entity folder whose status child is a program
\* is registered as (name, status, None), whether or not it has an actions
\* child, and every binary_sensor entity has actions None.
C14_BinarySensorNoActions ==
    calls >= 1 =>
        /\ programs[BINARY_SENSOR] # None =>
             \A j \in 1..Len(programs[BINARY_SENSOR][1]) :
                LET child == programs[BINARY_SENSOR][1][j]
                IN  (child.dtype = TAG_FOLDER /\ IsProgram(child.status))
                        => EntitiesOf(BINARY_SENSOR, j) = {<<j, child.status, None>>}
        /\ \A e \in Range(ISY994_PROGRAMS[BINARY_SENSOR]) : e[3] = None

C14_Witness ==
    /\ calls = 1
    /\ programs[BINARY_SENSOR] # None
    /\ \E j \in 1..Len(programs[BINARY_SENSOR][1]) :
          /\ programs[BINARY_SENSOR][1][j].actions = Some(PROTO_PROGRAM)
          /\ <<j, Some(PROTO_PROGRAM), None>> \in Range(ISY994_PROGRAMS[BINARY_SENSOR])
    /\ \E j \in 1..Len(programs[BINARY_SENSOR][1]) :
          /\ programs[BINARY_SENSOR][1][j].actions = None
          /\ <<j, Some(PROTO_PROGRAM), None>> \in Range(ISY994_PROGRAMS[BINARY_SENSOR])

----------------------------------------------------------------------------
(* C15 *)

\* C15: with no config entry, a call of async_step_user without input shows
\* the 'user' form, and the call after it, with an input for which
\* VivintSky.connect() succeeds, returns a create-entry result titled
\* 'Vivint' that holds the input's username and password.
C15_LinearFlow ==
    \A i \in 1..Len(flow) :
        /\ (current_entries = 0 /\ flow[i].user_input = None)
              => (flow[i].result.type = "form" /\ flow[i].result.step_id = "user")
        /\ ( /\ current_entries = 0
             /\ i > 1
             /\ flow[i - 1].user_input = None
             /\ flow[i].user_input # None
             /\ flow[i].connect_ok )
              => /\ flow[i].result.type = "create_entry"
                 /\ flow[i].result.title = "Vivint"
                 /\ flow[i].result.data.username = flow[i].user_input[1].username
                 /\ flow[i].result.data.password = flow[i].user_input[1].password

----------------------------------------------------------------------------
(* C16 *)

\* C16: every platform list holds its nodes in the order of the input
\* sequence, fan nodes redirected to light included: what one call appends
\* is in increasing input position, and a later call leaves what the list
\* held in place, at the front.
C16_InputOrder ==
    calls >= 1 =>
        \A p \in Platforms :
            /\ \A i, j \in 1..Len(first[p]) : i < j => first[p][i] < first[p][j]
            /\ Len(first[p]) <= Len(ISY994_NODES[p])
            /\ \A i \in 1..Len(first[p]) : ISY994_NODES[p][i] = first[p][i]

C16_Witness ==
    /\ calls = 1
    /\ ISY994_NODES[LIGHT] = <<1, 2>>
    /\ nodes[1].type = Some(ty_light)
    /\ nodes[2].type = Some(ty_fan)
    /\ EndsIn(nodes[2], "1")

----------------------------------------------------------------------------
(* C17, C18 *)

\* The platforms the call looks at
CallPlatforms(call) ==
    IF call.single_platform = None THEN Platforms ELSE {call.single_platform[1]}

\* The set the call compares the node's states with, for platform p
FilterInUse(call, p) ==
    IF call.states_list # <<>> THEN Range(call.states_list)
    ELSE NODE_FILTERS[p].states

\* The platforms the call put the node in
AssignedBy(call) == {p \in Platforms : ISY994_NODES[p] # <<>>}

\* C17 as claimed: the matcher assigns a node to a platform only when the
\* node's lower-cased uom set equals that platform's state vocabulary.
C17_Original ==
    \A c \in 1..Len(states_call) :
        \A p \in AssignedBy(states_call[c]) :
            /\ ~Lacks(nodes[1].uom)
            /\ LoweredUom(nodes[1]) = NODE_FILTERS[p].states

\* C17, amended: the matcher assigns a node, to one platform, exactly when
\* the node's lower-cased uom set equals the filter in use for that platform
\* (the given states_list, else the platform's state vocabulary); with a
\* strict subset or superset of every filter in use it assigns nothing and
\* returns False.
C17_ExactFilter ==
    \A c \in 1..Len(states_call) :
        LET call == states_call[c]
            equal == {p \in CallPlatforms(call) :
                        /\ ~Lacks(nodes[1].uom)
                        /\ LoweredUom(nodes[1]) = FilterInUse(call, p)}
        IN  /\ call.ok <=> equal # {}
            /\ AssignedBy(call) \subseteq equal
            /\ call.ok => \E p \in equal : AssignedBy(call) = {p} /\ ISY994_NODES[p] = <<1>>
            /\ ~call.ok => AssignedBy(call) = {}

\* A node with upper-case tokens is assigned by the matcher called as the
\* sensor branch calls it, to a platform whose own vocabulary is another set
C17_Witness ==
    /\ Len(states_call) = 1
    /\ states_call[1].single_platform = Some(BINARY_SENSOR)
    /\ states_call[1].states_list = <<s_on, s_off>>
    /\ nodes[1].uom = Some(<<s_ON, s_Off>>)
    /\ NODE_FILTERS[BINARY_SENSOR].states # {s_on, s_off}
    /\ states_call[1].ok
    /\ ISY994_NODES[BINARY_SENSOR] = <<1>>

\* C18: the call passes (assigns the node and returns True) whenever the
\* node's lower-cased states all lie inside the filter in use, the
\* platform's states or the given states_list.
C18_SubsetPasses ==
    \A c \in 1..Len(states_call) :
        LET call == states_call[c]
        IN  ( /\ ~Lacks(nodes[1].uom)
              /\ \E p \in CallPlatforms(call) :
                    LoweredUom(nodes[1]) \subseteq FilterInUse(call, p) )
                => call.ok /\ AssignedBy(call) # {}

----------------------------------------------------------------------------
(* C19, C20 *)

\* C19: a node on the sensor-override path whose uom meets the binary_sensor
\* platform's uom table but holds neither "2" nor "78", and that no other
\* binary-sensor check matches, is in the sensor list and in no other.
C19_HardCodedUom ==
    \A k \in 1..Len(nodes) :
        ( /\ Started(k)
          /\ IsSensorOverride(nodes[k])
          /\ BINARY_SENSOR \in UomPlatforms(nodes[k])
          /\ LoweredUom(nodes[k]) \cap {s_2, s_78} = {}
          /\ LoweredUom(nodes[k]) # {s_on, s_off}
          /\ BINARY_SENSOR \notin DefPlatforms(nodes[k])
          /\ BINARY_SENSOR \notin TypePlatforms(nodes[k]) )
            => OnlyIn(k, SENSOR)

\* The claim fails on a node that has a node_def_id no platform lists and no
\* type attribute: the call ends with AttributeError in the node-def check
\* and the node is not in the sensor list.

\* The node is of a fan type at an address ending in 1: what the
\* Insteon-type matcher redirects to light
FanTypeAtOne(node) == FAN \in TypePlatforms(node) /\ EndsIn(node, "1")

\* C20: only the generic Insteon-type matcher redirects from fan to light: a
\* node on the sensor-override path is never in the light list, and a node on
\* the generic path whose node_def_id names fan is in the fan list and in no
\* other, also when its address ends in 1.
C20_RedirectOnlyGeneric ==
    \A k \in 1..Len(nodes) :
        Started(k)
            => /\ IsSensorOverride(nodes[k]) => ~InList(k, LIGHT)
               /\ ( /\ IsGeneric(nodes[k])
                    /\ DefPlatforms(nodes[k]) # {}
                    /\ FirstOf(DefPlatforms(nodes[k])) = FAN )
                    => OnlyIn(k, FAN)

C20_Witness ==
    \E k, j \in 1..Len(nodes) :
        /\ Started(k) /\ Started(j)
        /\ IsSensorOverride(nodes[k])
        /\ FanTypeAtOne(nodes[k])
        /\ InList(k, BINARY_SENSOR)
        /\ IsGeneric(nodes[j])
        /\ DefPlatforms(nodes[j]) # {}
        /\ FirstOf(DefPlatforms(nodes[j])) = FAN
        /\ FanTypeAtOne(nodes[j])
        /\ InList(j, FAN)

----------------------------------------------------------------------------
(* C21 *)

\* C21: the map a read of device_state_attributes returns holds every key
\* an earlier read returned, also one that has left aux_properties since;
\* for a property in the node's aux_properties it holds, under the
\* property's friendly name, the lower-cased current value, and for a node
\* with group_all_on it holds that attribute's current on/off.
C21_AttributesAccumulate ==
    isy_entity.reads >= 1 =>
        LET node == isy_entity.read_node
            attrs == isy_entity.attrs
        IN  /\ isy_entity.keys_returned \subseteq Keys(attrs)
            /\ HasAttr(node.aux_properties) =>
                  \A name \in AuxNames :
                      node.aux_properties[1][name] # None
                          => attrs[FriendlyName(name)] =
                                Some(Lower(node.aux_properties[1][name][1]))
            /\ HasAttr(node.group_all_on) =>
                  attrs["group_all_on"] =
                      Some(IF node.group_all_on[1] THEN STATE_ON ELSE STATE_OFF)

\* The second read finds "ST" gone and "CUSTOM" changed: "status" stays,
\* "CUSTOM" holds the new value
C21_Witness ==
    /\ isy_entity.reads = 2
    /\ "status" \in isy_entity.keys_returned
    /\ HasAttr(isy_entity.read_node.aux_properties)
    /\ isy_entity.read_node.aux_properties[1]["ST"] = None
    /\ isy_entity.read_node.aux_properties[1]["CUSTOM"] = Some(s_ON)
    /\ isy_entity.attrs["status"] = Some(s_off)
    /\ isy_entity.attrs["CUSTOM"] = Some(s_on)

----------------------------------------------------------------------------
(* C22 *)

\* C22: SIGNAL_ADD_ENTITIES is dispatched only after the gateway's
\* async_initialize_devices_and_entities has completed and every platform
\* setup task has ended, normally or with an exception; each task that
\* raised is logged, and once the gateway has completed and
\* async_load_entities has ended the signal has been sent, whatever the
\* tasks did.
C22_SignalAfterSetup ==
    /\ zha_load.signal
          => /\ zha_load.gateway = "done"
             /\ TasksFinished(zha_load)
             /\ \A c \in Components :
                   zha_load.tasks[c] = "raised"
                       <=> \E w \in 1..Len(zha_load.warnings) : zha_load.warnings[w] = c
    /\ (zha_load.gateway = "done" /\ zha_load.load \in {"done", "failed"})
          => zha_load.signal

C22_Witness ==
    /\ zha_load.signal
    /\ zha_load.tasks["light"] = "raised"
    /\ zha_load.tasks["sensor"] = "done"
    /\ zha_load.warnings = <<"light">>

----------------------------------------------------------------------------
(* C23 *)

\* The data the claim gives a migrated version-1 entry
MigratedData(data, baudrate) ==
    EntryData(data.radio_type, None,
              Some(Device(data.usb_path[1],
                          IF /\ data.radio_type # "deconz"
                             /\ baudrate # None
                             /\ baudrate[1] \in BAUD_RATES
                          THEN baudrate ELSE None)))

\* C23: async_migrate_entry returns True; it gives a version-1 entry
\* version 2 and the data {radio type, device: {path}}, with the configured
\* baudrate added only when the radio type is not deconz and the baudrate
\* is in BAUD_RATES; it leaves a version-2 entry, the result of a migration
\* included, as it is.  Whether this holds rests on the answer of the test
\* against RadioType.deconz: it does when the test answers by the radio
\* type's name, and not when it answers "differs" for the name deconz.
C23_Migration ==
    \A i \in 1..Len(zha_entry.migrations) :
        LET m == zha_entry.migrations[i]
        IN  /\ m.result = TRUE
            /\ m.before.version = 1
                  => /\ m.after.version = 2
                     /\ m.after.data = MigratedData(m.before.data, zha_entry.baudrate)
            /\ m.before.version = 2 => m.after = m.before

----------------------------------------------------------------------------
(* C24 *)

\* The platforms whose state vocabulary is empty
NoStatesPlatforms == {p \in Platforms : NODE_FILTERS[p].states = {}}

\* C24: a node on the generic path whose uom is an empty list and that no
\* node-def and no Insteon type matches is in the list of the first
\* platform, in SUPPORTED_PLATFORMS order, whose state vocabulary is empty,
\* and in no other; it is in no list when no platform has an empty state
\* vocabulary.
C24_EmptyUom ==
    \A k \in 1..Len(nodes) :
        ( /\ Started(k)
          /\ IsGeneric(nodes[k])
          /\ nodes[k].uom = Some(<<>>)
          /\ DefPlatforms(nodes[k]) = {}
          /\ TypePlatforms(nodes[k]) = {} )
            => IF NoStatesPlatforms # {}
               THEN OnlyIn(k, FirstOf(NoStatesPlatforms))
               ELSE Places(k) = {}

\* The claim fails on a node that has a node_def_id no platform lists and no
\* type attribute: the call ends with AttributeError in the node-def check,
\* before the states matcher runs, and the node is in no list although a
\* platform has an empty state vocabulary.

----------------------------------------------------------------------------
(* C25 *)

\* C25: with the empty string as the ignore token every node is dropped,
\* groups included: the loop passes every node without an error and every
\* platform list stays empty.
C25_EmptyTokenDropsAll ==
    (ignore_identifier = Str0 /\ calls >= 1)
        => /\ ISY994_NODES = EmptyRegistry
           /\ raised = NoError
           /\ reached = Len(nodes)

C25_Witness ==
    /\ ignore_identifier = Str0
    /\ calls >= 1
    /\ Len(nodes) = 2
    /\ IsGroup(nodes[1])
    /\ DefPlatforms(nodes[2]) # {}
    /\ reached = 2
    /\ ISY994_NODES = EmptyRegistry

====
